---- MODULE Spec2Model ----
(***************************************************************************)
(* lazyests: the SQLite response cache (src/src/lazyests/cache.py) and the *)
(* browser-backed client (src/src/lazyests/client.py).                     *)
(*                                                                         *)
(* Spec        threads calling one RequestCache concurrently               *)
(* ClientSpec  threads calling one Client concurrently                     *)
(***************************************************************************)
EXTENDS Integers, Sequences, FiniteSets, TLC

VARIABLES
    clock,      \* time.time(), in ticks
    table,      \* rows of the SQLite table "cache"
    lock,       \* RequestCache.lock: the thread holding it, or NoThread
    connOpen,   \* RequestCache.conn has not been closed
    schemaOk,   \* _init_db created (or found) the table
    frame,      \* per thread: the RequestCache call it is in and its locals
    lastWrite,  \* history: per key, the last set() whose INSERT committed
    clearedAll, \* history: keys emptied by clear_all and not written since
    headless,   \* Client.headless
    page,       \* Client._page: the browser session held, or NoPage
    user_agent, \* Client._user_agent
    auto_navigate_for_cors, \* Client.auto_navigate_for_cors
    base_url,   \* Client.base_url, or NoUrl
    recorded,   \* history: per key stored by request, the fetch whose result it holds
    call        \* per thread: the Client call it is in and its locals

cacheVars == <<clock, table, lock, connOpen, schemaOk, frame, lastWrite, clearedAll>>

clientVars == <<headless, page, user_agent, auto_navigate_for_cors, base_url, recorded, call>>

vars == <<clock, table, lock, connOpen, schemaOk, frame, lastWrite, clearedAll,
          headless, page, user_agent, auto_navigate_for_cors, base_url, recorded, call>>

----------------------------------------------------------------------------
(* Bounds of the model *)

MaxClock == 2
MaxTtl == 1

Threads == {"t1", "t2"}
NoThread == "nobody"
CacheKeys == {"k1", "k2"}
Ttls == {-1} \cup (1 .. MaxTtl)

\* The threads sharing the cache in a run: one thread working on every key and
\* value, or two threads contending for one key.
Workloads == { {"t1"}, Threads }
Callers == DOMAIN frame
Contended == Cardinality(Callers) > 1

----------------------------------------------------------------------------
(* Values: Python objects and JSON text *)

REQUIRED_KEYS == {"status", "statusText", "url", "headers", "text", "redirected", "type"}

\* A Python value: a dict is its set of <<key, value>> items.
PyDict(items) == [kind |-> "dict", items |-> items]
PyStr == [kind |-> "str", items |-> {}]
None == [kind |-> "None", items |-> {}]
JSONDecodeError == [kind |-> "JSONDecodeError", items |-> {}]

DictKeys(data) == {p[1] : p \in data.items}

\* The FetchResponseData records the threads store.
RecordA == PyDict({<<k, 1>> : k \in REQUIRED_KEYS \ {"status"}} \cup {<<"status", 200>>})
RecordB == PyDict({<<k, 2>> : k \in REQUIRED_KEYS \ {"status"}} \cup {<<"status", 200>>})
\* test_validate_data_invalid_missing_key: no statusText
RecordNoStatusText == PyDict({p \in RecordA.items : p[1] # "statusText"})

StoredValues == {RecordA, RecordB, RecordNoStatusText, PyStr}

KeysIn == IF Contended THEN {"k1"} ELSE CacheKeys
ValuesIn == IF Contended THEN {RecordA, RecordB} ELSE StoredValues

\* JSON text, by what it denotes.
NoText == [form |-> "none", pairs |-> {}]
GarbageText == [form |-> "garbage", pairs |-> {}]

json_dumps(value) ==
    IF value.kind = "dict" THEN [form |-> "object", pairs |-> value.items]
    ELSE [form |-> "string", pairs |-> {}]

json_loads(text) ==
    IF text.form = "object" THEN PyDict(text.pairs)
    ELSE IF text.form = "string" THEN PyStr
    ELSE JSONDecodeError

ValidateDataAnyKey(data) ==
    IF data.kind # "dict" THEN None
    ELSE IF DictKeys(data) \cap REQUIRED_KEYS = {} THEN None
    ELSE data

\* RequestCache._validate_data
ValidateData(data) ==
    IF data.kind # "dict" THEN None
    ELSE IF ~(REQUIRED_KEYS \subseteq DictKeys(data)) THEN None
    ELSE data

----------------------------------------------------------------------------
(* The table and the connection *)

Row(key, value_json, expires_at) ==
    [key |-> key, value |-> value_json, expires_at |-> expires_at]
NoRow == Row("none", NoText, 0)

RowsOf(tbl, key) == {r \in tbl : r.key = key}

\* The database file outlives the process: rows may be there when it is opened,
\* written by an earlier run or damaged on disk.
InitialTables == { {}, {Row("k1", GarbageText, 2)} }

SqliteErrors == {"sqlite3.OperationalError", "sqlite3.ProgrammingError"}

\* What a call on self.conn raises: ProgrammingError on a closed connection,
\* OperationalError when the table was never created or the engine fails
\* (disk, locking); "ok" when the statement runs.
ConnCall(transient) ==
    IF ~connOpen THEN "sqlite3.ProgrammingError"
    ELSE IF ~schemaOk \/ transient THEN "sqlite3.OperationalError"
    ELSE "ok"

ExceptOperationalErrorOnly(exc) == exc = "sqlite3.OperationalError"

\* except sqlite3.Error as e: logger.warning(...)
ExceptSqliteError(exc) == exc \in SqliteErrors

ExpiresAtMinus(now, ttl) == now - ttl

\* expires_at = time.time() + ttl
ExpiresAt(now, ttl) == now + ttl

IsFreshInclusive(now, expires_at) == now <= expires_at

\* if now < expires_at
IsFresh(now, expires_at) == now < expires_at

SweepsInclusive(now, expires_at) == expires_at <= now

\* DELETE FROM cache WHERE expires_at < ?
Sweeps(now, expires_at) == expires_at < now

InsertKeepingOld(tbl, row) == tbl \cup {row}

\* INSERT OR REPLACE INTO cache (key, value, expires_at): key is the primary key
InsertOrReplace(tbl, row) == (tbl \ RowsOf(tbl, row.key)) \cup {row}

DeleteExpiredOnly(tbl) == {r \in tbl : ~(r.expires_at < clock)}

\* DELETE FROM cache
DeleteAll(tbl) == {}

\* DELETE FROM cache WHERE key = ?
DeleteWithoutWhere(tbl, key) == {}
DeleteKey(tbl, key) == tbl \ RowsOf(tbl, key)

\* json.loads(value_json) then _validate_data, JSONDecodeError caught
Decode(value_json) ==
    LET data == json_loads(value_json)
    IN IF data = JSONDecodeError THEN None ELSE ValidateData(data)

----------------------------------------------------------------------------
(* The client: URLs, the browser session, cookies, fetch results *)

MaxTimeout == 1

\* a URL; query: the <<name, value>> pairs of its query string, in order
Url(scheme, netloc, path) ==
    [scheme |-> scheme, netloc |-> netloc, path |-> path, query |-> <<>>]
NoUrl == Url("", "", "")                 \* None, or the empty string
AboutBlank == Url("about", "", "blank")
LoginUrl == Url("https", "a.example", "/login")

\* the base_url the client is constructed with, when it is given one
BaseUrl == Url("https", "a.example", "")

\* request's endpoint: a path, a path with a query string, or an absolute URL
\* of another origin
EndpointWithQuery == [Url("", "", "/secure") EXCEPT !.query = <<<<1, 1>>>>]
Endpoints == {Url("", "", "/secure"), EndpointWithQuery, Url("https", "b.example", "/x"),
              Url("http", "a.example", "/secure")}

OriginOf(url) == Url(url.scheme, url.netloc, "")

\* Client._resolve_url
ResolveUrl(endpoint) ==
    IF endpoint.scheme \in {"http", "https"} THEN endpoint
    ELSE IF base_url # NoUrl
    THEN [Url(base_url.scheme, base_url.netloc, endpoint.path) EXCEPT !.query = endpoint.query]
    ELSE endpoint

\* cache_ttl: None, or seconds
NoTtl == [given |-> FALSE, seconds |-> 0]
Seconds(n) == [given |-> TRUE, seconds |-> n]

\* params, data, json_data: None, or a dict, which is the sequence of its
\* <<key, value>> items in insertion order. Keys are numbered in their sort order.
NoBody == [given |-> FALSE, items |-> <<>>]
Body(items) == [given |-> TRUE, items |-> items]

\* dict == dict: the same items, whatever their order
SameDict(a, b) ==
    /\ a.given = b.given
    /\ {a.items[i] : i \in DOMAIN a.items} = {b.items[i] : i \in DOMAIN b.items}

RECURSIVE SortKeys(_)
\* json.dumps(x, sort_keys=True): the items in the order of their keys
SortKeys(items) ==
    IF items = <<>> THEN <<>>
    ELSE LET i == CHOOSE i \in DOMAIN items :
                    \A j \in DOMAIN items : items[i][1] <= items[j][1]
             rest == [j \in 1 .. (Len(items) - 1) |->
                        IF j < i THEN items[j] ELSE items[j + 1]]
         IN <<items[i]>> \o SortKeys(rest)

\* json.dumps(x, sort_keys=True) if x else "": the empty text for None and for {}
BodyStr(body) == IF body.given /\ body.items # <<>> THEN SortKeys(body.items) ELSE <<>>

\* method.upper()
Upper(method) == IF method = "get" THEN "GET" ELSE method

\* RequestCache.generate_key: the digest of METHOD|url|params|data|json, which
\* is one-to-one on the text hashed
GenerateKey(method, url, params, data, json_data) ==
    <<Upper(method), url, BodyStr(params), BodyStr(data), BodyStr(json_data)>>
NoKey == <<>>

\* request: urlencode(params) joined to the resolved URL with "?" or "&"
FinalUrl(full_url, params) ==
    IF params.given /\ params.items # <<>>
    THEN [full_url EXCEPT !.query = @ \o params.items]
    ELSE full_url

\* request: self.cache.generate_key(method, full_url, None, data, json_data)
RequestKeyWithParams(method, full_url, params, data, json_data) ==
    GenerateKey(method, full_url, params, data, json_data)
RequestKey(method, full_url, params, data, json_data) ==
    GenerateKey(method, full_url, NoBody, data, json_data)

\* request: if cached_data
NeverHit(cached_data) == FALSE
IsHit(cached_data) == cached_data # None

\* a cookie is the set of its <<attribute, value>> items
allowed_keys == {"name", "value", "domain", "path", "expires", "size", "httpOnly",
                 "secure", "sameSite", "priority"}
RawCookie == {<<"name", 1>>, <<"value", 1>>, <<"domain", 1>>, <<"expires", 0>>, <<"session", 1>>}
PersistentCookie == {<<"name", 2>>, <<"value", 1>>, <<"expires", 5>>, <<"sameParty", 0>>}
CookieJars == { {}, {RawCookie}, {RawCookie, PersistentCookie} }
NoCookies == [captured |-> FALSE, jar |-> {}]

\* clean_cookie: the allowed attributes, expires dropped when <= 0
CleanCookieAllowedOnly(c) == {p \in c : p[1] \in allowed_keys}
CleanCookie(c) ==
    LET clean == {p \in c : p[1] \in allowed_keys}
    IN IF \E p \in clean : p[1] = "expires" /\ p[2] > 0
       THEN clean
       ELSE {p \in clean : p[1] # "expires"}

NoUserAgent == "none"

\* the ChromiumPage held in Client._page
NoPage == [up |-> FALSE, headless |-> FALSE, url |-> NoUrl, jar |-> {}, ua |-> NoUserAgent]
NewPage(mode, ua) == [up |-> TRUE, headless |-> mode, url |-> AboutBlank, jar |-> {}, ua |-> ua]

\* what Runtime.evaluate gives back
Status404 == PyDict({<<k, 1>> : k \in REQUIRED_KEYS \ {"status"}} \cup {<<"status", 404>>})
AbortErrorValue == PyDict({<<"error", 1>>})
FetchErrorValue == PyDict({<<"error", 2>>})
CdpExceptionDetails == [kind |-> "exceptionDetails", items |-> {}]
CdpResults == {RecordA, Status404, AbortErrorValue, FetchErrorValue, RecordNoStatusText,
               PyStr, CdpExceptionDetails}

StatusOf(data) == (CHOOSE p \in data.items : p[1] = "status")[2]

\* Response.ok
Ok(data) == 200 <= StatusOf(data) /\ StatusOf(data) < 300

\* request: if cache_ttl is not None and response.ok
StoreAnyStatus(cache_ttl, response) == cache_ttl.given
ShouldStore(cache_ttl, response) == cache_ttl.given /\ Ok(response)

\* Client._validate_fetch_response
ValidateFetchResponse(data) ==
    IF data.kind # "dict" THEN None
    ELSE IF ~(REQUIRED_KEYS \subseteq DictKeys(data)) THEN None
    ELSE data

ExecFetchSkipsValidation(cdp_res) ==
    IF cdp_res.kind = "exceptionDetails" THEN "RuntimeError"
    ELSE IF cdp_res.kind # "dict" THEN "RuntimeError"
    ELSE IF "error" \in DictKeys(cdp_res)
         THEN IF cdp_res = AbortErrorValue THEN "TimeoutError" ELSE "RuntimeError"
    ELSE "ok"

\* _exec_fetch after run_cdp: the exception raised, or "ok"
ExecFetchRaises(cdp_res) ==
    IF cdp_res.kind = "exceptionDetails" THEN "RuntimeError"
    ELSE IF cdp_res.kind # "dict" THEN "RuntimeError"
    ELSE IF "error" \in DictKeys(cdp_res)
         THEN IF cdp_res = AbortErrorValue THEN "TimeoutError" ELSE "RuntimeError"
    ELSE IF ValidateFetchResponse(cdp_res) = None THEN "RuntimeError"
    ELSE "ok"

\* wait_for_login: if captured_cookies (None and the empty list are both false)
RestoreAlways(captured_cookies) == TRUE
ShouldRestore(captured_cookies) == captured_cookies.jar # {}

\* wait_for_login: except Exception as e: logger.warning("Failed to restore ...")
ExceptLazyestsErrorOnly(exc) == exc = "BrowserInitError"
ExceptException(exc) == TRUE

\* wait_for_login: where the cookies are restored
RestoreTargetOriginalFirst(start_url, original_url) ==
    IF original_url # NoUrl /\ original_url.scheme # "" /\ original_url.netloc # ""
    THEN OriginOf(original_url)
    ELSE IF start_url # NoUrl /\ start_url.scheme # "" /\ start_url.netloc # ""
    THEN OriginOf(start_url)
    ELSE base_url

RestoreTarget(start_url, original_url) ==
    IF start_url # NoUrl /\ start_url.scheme # "" /\ start_url.netloc # ""
    THEN OriginOf(start_url)
    ELSE IF original_url # NoUrl /\ original_url.scheme # ""
            /\ original_url.netloc # ""
    THEN OriginOf(original_url)
    ELSE IF base_url # NoUrl THEN base_url
    ELSE NoUrl

\* request's headers argument: None, or a dict of <<name, value>> items
NoHeaders == [given |-> FALSE, items |-> {}]
Headers(items) == [given |-> TRUE, items |-> items]

HasContentType(h) == \E p \in h : p[1] = "Content-Type"

\* headers or {}: the caller's dict itself when it is not empty, else a new dict
SharesCallerHeaders(headers) == headers.given /\ headers.items # {}

\* options["body"]: json.dumps(json_data) when json_data is not None, else
\* urlencode(data) when data is not None, else no body
FetchBody(data, json_data) ==
    IF json_data.given THEN [kind |-> "json", items |-> json_data.items]
    ELSE IF data.given THEN [kind |-> "form", items |-> data.items]
    ELSE [kind |-> "none", items |-> <<>>]

\* the Content-Type that goes with the body, "" with no body
DefaultContentType(data, json_data) ==
    IF json_data.given THEN "application/json"
    ELSE IF data.given THEN "application/x-www-form-urlencoded"
    ELSE ""

\* request's options: the method in upper case, the headers with the default
\* Content-Type set when a body is sent and they name none, the body
FetchOptions(method, headers, data, json_data) ==
    LET h == IF SharesCallerHeaders(headers) THEN headers.items ELSE {}
        ct == DefaultContentType(data, json_data)
    IN [method |-> Upper(method),
        headers |-> IF ct # "" /\ ~HasContentType(h) THEN h \cup {<<"Content-Type", ct>>}
                    ELSE h,
        body |-> FetchBody(data, json_data)]
NoOptions == [method |-> "", headers |-> {}, body |-> [kind |-> "none", items |-> <<>>]]

\* headers: the caller's mapping, as it is now; headers_in: as it was passed
\* poll_failed: an iteration of the polling loop ended in its except clause
\* matched: the current iteration of the polling loop found the success URL
\* quit_exc: what self._page.quit() raised in _restart_browser, until the call
\* uses the session launched
\* primed: what _ensure_cors_context did, from its return until the cache lookup
\* fetches: the calls of _exec_fetch made; lookup_exc: what cache.get met ("ok" or
\* the error it absorbed), from the lookup until the fetch is sent, else "none"
IdleCall ==
    [pc |-> "idle", op |-> "none", method |-> "", endpoint |-> NoUrl, params |-> NoBody,
     data |-> NoBody, json_data |-> NoBody, headers |-> NoHeaders,
     headers_in |-> NoHeaders, options |-> NoOptions,
     url |-> NoUrl, cache_ttl |-> NoTtl, cache_key |-> NoKey,
     fetches |-> 0, lookup_exc |-> "none", cdp_res |-> None, cache_closes |-> 0,
     primed |-> "none", quit_exc |-> "ok", matched |-> FALSE, poll_failed |-> FALSE,
     timeout |-> 0, elapsed |-> 0, start_url |-> NoUrl, original_url |-> NoUrl,
     captured_cookies |-> NoCookies, pending |-> "ok",
     ret |-> None, exc |-> "ok", outcome |-> "none"]

----------------------------------------------------------------------------
(* Calls on the RequestCache, one frame per thread *)

\* due: the time of the call plus its ttl, kept beside expires_at for the history
IdleFrame ==
    [pc |-> "idle", op |-> "none", key |-> "none", value |-> None, due |-> 0,
     now |-> 0, value_json |-> NoText, expires_at |-> 0, row |-> NoRow,
     ret |-> None, exc |-> "ok", outcome |-> "none", gone |-> 0]

\* value and due of the last committed set of a key, while its row is live (no
\* DELETE has removed it); any: some set of the key has committed
NoWrite == [value |-> None, due |-> 0, live |-> FALSE, any |-> FALSE]
Deleted == [value |-> None, due |-> 0, live |-> FALSE, any |-> TRUE]
Forget(w) == IF w.any THEN Deleted ELSE NoWrite

At(t, pc) == frame[t].pc = pc

\* the thread is in no call: it has made none, or its last one has ended
Free(t) == frame[t].pc \in {"idle", "done"}

\* The call ends: with its value, or with the exception raised under the lock
\* going through the handler of the call.
\* gone: the rows the call's statement removed (or replaced).
Finished(f, ret, exc, gone) ==
    [IdleFrame EXCEPT !.pc = "done", !.op = f.op, !.gone = gone,
                      !.key = IF f.op = "get" THEN f.key ELSE "none",
                      !.now = IF f.op = "get" THEN f.now ELSE 0,
                      !.row = f.row,
                      !.ret = IF exc = "ok" THEN ret ELSE None,
                      !.exc = exc,
                      !.outcome = IF exc = "ok" \/ ExceptSqliteError(exc)
                                  THEN "returned" ELSE "raised"]

Init ==
    /\ clock = 0
    /\ table \in InitialTables
    /\ lock = NoThread
    /\ connOpen = TRUE
    /\ schemaOk \in BOOLEAN
    /\ (~schemaOk => table = {})
    /\ \E w \in Workloads : frame = [t \in w |-> IdleFrame]
    /\ lastWrite = [k \in CacheKeys |-> NoWrite]
    /\ clearedAll = {}
    /\ headless = TRUE
    /\ page = NewPage(TRUE, NoUserAgent)
    /\ user_agent = NoUserAgent
    /\ auto_navigate_for_cors = FALSE
    /\ base_url = BaseUrl
    /\ recorded = {}
    /\ call = [t \in {} |-> IdleCall]

Tick ==
    /\ clock < MaxClock
    /\ clock' = clock + 1
    /\ UNCHANGED <<table, lock, connOpen, schemaOk, frame, lastWrite, clearedAll>>
    /\ UNCHANGED clientVars

AcquireUnguarded(t, from, to) ==
    /\ At(t, from)
    /\ lock' = t
    /\ frame' = [frame EXCEPT ![t].pc = to]
    /\ UNCHANGED <<clock, table, connOpen, schemaOk, lastWrite, clearedAll>>
    /\ UNCHANGED clientVars

\* with self.lock: (blocking acquire)
Acquire(t, from, to) ==
    /\ At(t, from)
    /\ lock = NoThread
    /\ lock' = t
    /\ frame' = [frame EXCEPT ![t].pc = to]
    /\ UNCHANGED <<clock, table, connOpen, schemaOk, lastWrite, clearedAll>>
    /\ UNCHANGED clientVars

(* get *)
GetStart(t, key) ==
    /\ Free(t)
    /\ frame' = [frame EXCEPT ![t] = [IdleFrame EXCEPT !.pc = "get_lock", !.op = "get",
                                                       !.key = key, !.now = clock]]
    /\ UNCHANGED <<clock, table, lock, connOpen, schemaOk, lastWrite, clearedAll>>
    /\ UNCHANGED clientVars

GetAcquire(t) == Acquire(t, "get_lock", "get_select")

GetSelect(t) ==
    /\ At(t, "get_select")
    /\ \E transient \in BOOLEAN :
         LET exc == ConnCall(transient)
             f == frame[t]
             rows == RowsOf(table, f.key)
         IN IF exc # "ok"
            THEN /\ frame' = [frame EXCEPT ![t] = Finished(f, None, exc, 0)]
                 /\ lock' = NoThread
            ELSE IF rows = {}
            THEN /\ frame' = [frame EXCEPT ![t] = Finished(f, None, "ok", 0)]
                 /\ lock' = NoThread
            ELSE \E row \in rows :
                   IF IsFresh(f.now, row.expires_at)
                   THEN /\ frame' = [frame EXCEPT ![t] =
                                       Finished([f EXCEPT !.row = row], Decode(row.value), "ok", 0)]
                        /\ lock' = NoThread
                   ELSE /\ frame' = [frame EXCEPT ![t] = [f EXCEPT !.row = row, !.pc = "get_delete"]]
                        /\ lock' = lock
    /\ UNCHANGED <<clock, table, connOpen, schemaOk, lastWrite, clearedAll>>
    /\ UNCHANGED clientVars

GetDelete(t) ==
    /\ At(t, "get_delete")
    /\ \E transient \in BOOLEAN :
         LET exc == ConnCall(transient)
             f == frame[t]
         IN IF exc # "ok"
            THEN /\ UNCHANGED <<table, lastWrite>>
                 /\ frame' = [frame EXCEPT ![t] = Finished(f, None, exc, 0)]
            ELSE /\ table' = DeleteKey(table, f.key)
                 /\ lastWrite' = [lastWrite EXCEPT ![f.key] = Forget(@)]
                 /\ frame' = [frame EXCEPT ![t] =
                                Finished(f, None, "ok", Cardinality(RowsOf(table, f.key)))]
    /\ lock' = NoThread
    /\ UNCHANGED <<clock, connOpen, schemaOk, clearedAll>>
    /\ UNCHANGED clientVars

(* set *)
SetStart(t, key, value, ttl) ==
    /\ Free(t)
    /\ frame' = [frame EXCEPT ![t] =
                   [IdleFrame EXCEPT !.pc = "set_lock", !.op = "set", !.key = key,
                                     !.value = value, !.due = clock + ttl,
                                     !.expires_at = ExpiresAt(clock, ttl),
                                     !.value_json = json_dumps(value)]]
    /\ UNCHANGED <<clock, table, lock, connOpen, schemaOk, lastWrite, clearedAll>>
    /\ UNCHANGED clientVars

SetAcquire(t) == Acquire(t, "set_lock", "set_insert")

SetInsert(t) ==
    /\ At(t, "set_insert")
    /\ \E transient \in BOOLEAN :
         LET exc == ConnCall(transient)
             f == frame[t]
         IN IF exc # "ok"
            THEN /\ UNCHANGED <<table, lastWrite, clearedAll>>
                 /\ frame' = [frame EXCEPT ![t] = Finished(f, None, exc, 0)]
            ELSE /\ table' = InsertOrReplace(table, Row(f.key, f.value_json, f.expires_at))
                 /\ lastWrite' = [lastWrite EXCEPT ![f.key] =
                                    [value |-> f.value, due |-> f.due, live |-> TRUE, any |-> TRUE]]
                 /\ clearedAll' = clearedAll \ {f.key}
                 /\ frame' = [frame EXCEPT ![t] =
                                Finished(f, None, "ok", Cardinality(RowsOf(table, f.key)))]
    /\ lock' = NoThread
    /\ UNCHANGED <<clock, connOpen, schemaOk>>
    /\ UNCHANGED clientVars

(* clear_expired *)
ClearExpiredStart(t) ==
    /\ Free(t)
    /\ frame' = [frame EXCEPT ![t] = [IdleFrame EXCEPT !.pc = "sweep_lock",
                                                       !.op = "clear_expired", !.now = clock]]
    /\ UNCHANGED <<clock, table, lock, connOpen, schemaOk, lastWrite, clearedAll>>
    /\ UNCHANGED clientVars

ClearExpiredAcquire(t) == Acquire(t, "sweep_lock", "sweep_delete")

ClearExpiredDelete(t) ==
    /\ At(t, "sweep_delete")
    /\ \E transient \in BOOLEAN :
         LET exc == ConnCall(transient)
             f == frame[t]
             gone == {r \in table : Sweeps(f.now, r.expires_at)}
         IN IF exc # "ok"
            THEN /\ UNCHANGED <<table, lastWrite>>
                 /\ frame' = [frame EXCEPT ![t] = Finished(f, None, exc, 0)]
            ELSE /\ table' = table \ gone
                 /\ lastWrite' = [k \in CacheKeys |->
                                    IF RowsOf(gone, k) # {}
                                    THEN Forget(lastWrite[k])
                                    ELSE lastWrite[k]]
                 /\ frame' = [frame EXCEPT ![t] = Finished(f, None, "ok", Cardinality(gone))]
    /\ lock' = NoThread
    /\ UNCHANGED <<clock, connOpen, schemaOk, clearedAll>>
    /\ UNCHANGED clientVars

(* clear_all *)
ClearAllStart(t) ==
    /\ Free(t)
    /\ frame' = [frame EXCEPT ![t] = [IdleFrame EXCEPT !.pc = "wipe_lock", !.op = "clear_all"]]
    /\ UNCHANGED <<clock, table, lock, connOpen, schemaOk, lastWrite, clearedAll>>
    /\ UNCHANGED clientVars

ClearAllAcquire(t) == Acquire(t, "wipe_lock", "wipe_delete")

ClearAllDelete(t) ==
    /\ At(t, "wipe_delete")
    /\ \E transient \in BOOLEAN :
         LET exc == ConnCall(transient)
             f == frame[t]
         IN IF exc # "ok"
            THEN /\ UNCHANGED <<table, lastWrite, clearedAll>>
                 /\ frame' = [frame EXCEPT ![t] = Finished(f, None, exc, 0)]
            ELSE /\ table' = DeleteAll(table)
                 /\ lastWrite' = [k \in CacheKeys |-> Forget(lastWrite[k])]
                 /\ clearedAll' = CacheKeys
                 /\ frame' = [frame EXCEPT ![t] =
                                Finished(f, None, "ok", Cardinality(table \ DeleteAll(table)))]
    /\ lock' = NoThread
    /\ UNCHANGED <<clock, connOpen, schemaOk>>
    /\ UNCHANGED clientVars

(* close: self.conn.close(), without the lock *)
CloseStart(t) ==
    /\ Free(t)
    /\ frame' = [frame EXCEPT ![t] = [IdleFrame EXCEPT !.pc = "close_conn", !.op = "close"]]
    /\ UNCHANGED <<clock, table, lock, connOpen, schemaOk, lastWrite, clearedAll>>
    /\ UNCHANGED clientVars

CloseConn(t) ==
    /\ At(t, "close_conn")
    /\ \E failed \in BOOLEAN :
         IF failed /\ connOpen
         THEN /\ connOpen' = connOpen
              /\ frame' = [frame EXCEPT ![t] = Finished(frame[t], None, "sqlite3.OperationalError", 0)]
         ELSE /\ connOpen' = FALSE
              /\ frame' = [frame EXCEPT ![t] = Finished(frame[t], None, "ok", 0)]
    /\ UNCHANGED <<clock, table, lock, schemaOk, lastWrite, clearedAll>>
    /\ UNCHANGED clientVars

Next ==
    \/ Tick
    \/ \E t \in Callers, k \in KeysIn : GetStart(t, k)
    \/ \E t \in Callers : GetAcquire(t)
    \/ \E t \in Callers : GetSelect(t)
    \/ \E t \in Callers : GetDelete(t)
    \/ \E t \in Callers, k \in KeysIn, v \in ValuesIn, ttl \in Ttls : SetStart(t, k, v, ttl)
    \/ \E t \in Callers : SetAcquire(t)
    \/ \E t \in Callers : SetInsert(t)
    \/ \E t \in Callers : ClearExpiredStart(t)
    \/ \E t \in Callers : ClearExpiredAcquire(t)
    \/ \E t \in Callers : ClearExpiredDelete(t)
    \/ \E t \in Callers : ClearAllStart(t)
    \/ \E t \in Callers : ClearAllAcquire(t)
    \/ \E t \in Callers : ClearAllDelete(t)
    \/ \E t \in Callers : CloseStart(t)
    \/ \E t \in Callers : CloseConn(t)

Spec == Init /\ [][Next]_vars

----------------------------------------------------------------------------
(* Calls on the Client, one per thread. A thread at a pc named in SessionPcs is
   inside a call on the browser session (page.get, run_cdp, cookies, ...). *)

ClientWorkloads == { {"t1"}, {"t2"}, Threads }
ClientCallers == DOMAIN call
ClientContended == Cardinality(ClientCallers) > 1

\* the requests made: the query of /secure is passed in params or in the
\* endpoint, the other origin is fetched uncached; the posting client sends no
\* body, an empty JSON object or a JSON object, with and without headers
\* a GET without body or headers
Get(endpoint, params, cache_ttl) ==
    [method |-> "GET", endpoint |-> endpoint, params |-> params, data |-> NoBody,
     json_data |-> NoBody, headers |-> NoHeaders, cache_ttl |-> cache_ttl]
\* a POST of a JSON body (or of none) to /secure
PostJson(json_data, headers, cache_ttl) ==
    [method |-> "POST", endpoint |-> Url("", "", "/secure"), params |-> NoBody,
     data |-> NoBody, json_data |-> json_data, headers |-> headers,
     cache_ttl |-> cache_ttl]
XHeader == <<"X-Client", "1">>
\* the client used by one thread that posts JSON bodies and makes no handoff
PostingClient == ClientCallers = {"t2"}
RequestsIn ==
    IF ClientContended
    THEN {Get(Url("", "", "/secure"), NoBody, Seconds(1))}
    ELSE IF ~PostingClient
    THEN {Get(Url("", "", "/secure"), NoBody, NoTtl),
          Get(Url("", "", "/secure"), Body(<<<<1, 1>>>>), Seconds(1)),
          Get(EndpointWithQuery, NoBody, Seconds(1)),
          Get(Url("https", "b.example", "/x"), NoBody, NoTtl),
          Get(Url("http", "a.example", "/secure"), NoBody, NoTtl)}
    ELSE {PostJson(NoBody, NoHeaders, Seconds(1)),
          PostJson(Body(<<>>), Headers({XHeader}), Seconds(1)),
          PostJson(Body(<<<<1, 1>>>>), Headers({}), NoTtl),
          PostJson(Body(<<<<1, 1>>>>), Headers({<<"Content-Type", "text/plain">>}), NoTtl)}
\* the threads that call wait_for_login: beside it the other thread makes requests
HandoffCallers == IF ClientContended \/ ~PostingClient THEN {"t1"} ELSE {}
CookieJarsIn == IF ClientContended THEN { {}, {RawCookie} } ELSE CookieJars
TimeoutsIn == IF ClientContended THEN {0} ELSE 0 .. MaxTimeout
StartUrlsIn == IF ClientContended THEN {NoUrl} ELSE {NoUrl, LoginUrl, Url("", "", "/login")}
\* the client is constructed with a base_url or without one
BaseUrlsIn == IF ClientContended \/ PostingClient THEN {BaseUrl} ELSE {BaseUrl, NoUrl}

ClientInit ==
    /\ clock = 0
    /\ table = {}
    /\ lock = NoThread
    /\ connOpen = TRUE
    /\ schemaOk = TRUE
    /\ frame = [t \in {} |-> IdleFrame]
    /\ lastWrite = [k \in CacheKeys |-> NoWrite]
    /\ clearedAll = {}
    /\ headless = TRUE
    /\ page = NewPage(headless, NoUserAgent)
    /\ user_agent = NoUserAgent
    /\ auto_navigate_for_cors \in BOOLEAN
    /\ \E w \in ClientWorkloads : call = [t \in w |-> IdleCall]
    /\ base_url \in BaseUrlsIn
    /\ recorded = {}

AtCall(t, pc) == call[t].pc = pc

\* close has been called: it is the last call made on a client
Closing == \E u \in ClientCallers : call[u].op = "close"

\* the thread is in no call and may make one
FreeCall(t) == call[t].pc \in {"idle", "done"} /\ ~Closing

\* the call returns ret, or raises exc to its caller
Ended(c, ret, exc) ==
    [IdleCall EXCEPT !.pc = "done", !.op = c.op, !.ret = ret, !.exc = exc,
                     !.fetches = c.fetches, !.cdp_res = c.cdp_res,
                     !.cache_closes = c.cache_closes,
                     !.captured_cookies = c.captured_cookies,
                     !.start_url = c.start_url, !.original_url = c.original_url,
                     !.headers = c.headers, !.headers_in = c.headers_in,
                     !.outcome = IF exc = "ok" THEN "returned" ELSE "raised"]

ClientTick ==
    /\ clock < MaxClock
    /\ clock' = clock + 1
    /\ UNCHANGED <<table, lock, connOpen, schemaOk, frame, lastWrite, clearedAll>>
    /\ UNCHANGED clientVars

(* request *)
ReqStart(t, method, endpoint, params, data, json_data, headers, cache_ttl) ==
    /\ FreeCall(t)
    /\ call' = [call EXCEPT ![t] = [IdleCall EXCEPT !.pc = "req_cors", !.op = "request",
                                                    !.method = method,
                                                    !.endpoint = endpoint,
                                                    !.params = params,
                                                    !.data = data,
                                                    !.json_data = json_data,
                                                    !.headers = headers,
                                                    !.headers_in = headers,
                                                    !.url = FinalUrl(ResolveUrl(endpoint), params),
                                                    !.cache_ttl = cache_ttl]]
    /\ UNCHANGED <<headless, page, user_agent, auto_navigate_for_cors, base_url, recorded>>
    /\ UNCHANGED cacheVars

\* _ensure_cors_context up to page.get: reads the current URL (an error is swallowed)
ReqCors(t) ==
    /\ AtCall(t, "req_cors")
    /\ \E raises \in BOOLEAN :
         LET current == IF page.up THEN page.url ELSE NoUrl
             target == call[t].url
             navigate == /\ auto_navigate_for_cors
                         /\ ~(raises /\ page.up)
                         /\ target.netloc # ""
                         /\ target.netloc # current.netloc
         IN call' = [call EXCEPT ![t].pc = IF navigate THEN "req_navigate" ELSE "req_cache",
                                 ![t].primed = IF ~auto_navigate_for_cors THEN "off"
                                               ELSE IF raises /\ page.up THEN "unreadable"
                                               ELSE IF navigate THEN "none"
                                               ELSE "same"]
    /\ UNCHANGED <<headless, page, user_agent, auto_navigate_for_cors, base_url, recorded>>
    /\ UNCHANGED cacheVars

\* self.page.get(target_origin), any exception swallowed
ReqNavigate(t) ==
    /\ AtCall(t, "req_navigate")
    /\ \E raises \in BOOLEAN :
         /\ page' = IF page.up /\ ~raises
                    THEN [page EXCEPT !.url = OriginOf(call[t].url)]
                    ELSE page
         /\ call' = [call EXCEPT ![t].pc = "req_cache",
                                 ![t].primed = IF page.up /\ ~raises THEN "navigated"
                                               ELSE "failed"]
    /\ UNCHANGED <<headless, user_agent, auto_navigate_for_cors, base_url, recorded>>
    /\ UNCHANGED cacheVars

\* cache.get(key), as one step: the row read, purged when expired
CacheGetRet(tbl, key, now) ==
    LET rows == RowsOf(tbl, key)
    IN IF rows = {} THEN None
       ELSE LET row == CHOOSE r \in rows : TRUE
            IN IF IsFresh(now, row.expires_at) THEN Decode(row.value) ELSE None

CacheGetTable(tbl, key, now) ==
    {r \in tbl : ~(r.key = key /\ ~IsFresh(now, r.expires_at))}

\* the cache lookup of request; a hit returns Response(cached_data)
ReqCache(t) ==
    /\ AtCall(t, "req_cache")
    /\ LET c == call[t]
           key == RequestKey(c.method, c.url, c.params, c.data, c.json_data)
       IN IF ~c.cache_ttl.given
          THEN /\ call' = [call EXCEPT ![t].pc = "req_fetch", ![t].primed = "none"]
               /\ table' = table
          ELSE \E transient \in BOOLEAN :
                 LET failed == ConnCall(transient) # "ok"
                     cached_data == IF failed THEN None ELSE CacheGetRet(table, key, clock)
                 IN /\ table' = IF failed THEN table ELSE CacheGetTable(table, key, clock)
                    /\ call' = [call EXCEPT ![t] =
                                  IF IsHit(cached_data)
                                  THEN Ended(c, cached_data, "ok")
                                  ELSE [c EXCEPT !.pc = "req_fetch", !.cache_key = key,
                                                 !.primed = "none",
                                                 !.lookup_exc = ConnCall(transient)]]
    /\ recorded' = {p \in recorded : \E r \in table' : r.key = p[1]}
    /\ UNCHANGED <<clock, lock, connOpen, schemaOk, frame, lastWrite, clearedAll>>
    /\ UNCHANGED <<headless, page, user_agent, auto_navigate_for_cors, base_url>>

\* the fetch options are built: setting the default Content-Type in
\* options["headers"] sets it in the caller's dict when that is the same object.
\* Then _exec_fetch: self.page.run_cdp("Runtime.evaluate", ...) is sent to the
\* session (self.page raises BrowserInitError when there is none)
ReqSend(t) ==
    /\ AtCall(t, "req_fetch")
    /\ LET b == call[t]
           options == FetchOptions(b.method, b.headers, b.data, b.json_data)
           c == [b EXCEPT !.fetches = @ + 1, !.lookup_exc = "none",
                          !.options = options,
                          !.headers = IF SharesCallerHeaders(b.headers)
                                      THEN Headers(options.headers) ELSE @]
       IN call' = [call EXCEPT ![t] = IF page.up THEN [c EXCEPT !.pc = "req_await"]
                                      ELSE Ended(c, None, "BrowserInitError")]
    /\ UNCHANGED <<headless, page, user_agent, auto_navigate_for_cors, base_url, recorded>>
    /\ UNCHANGED cacheVars

\* run_cdp comes back (or raises: always when the session is gone); then the
\* checks of its result, then the cache write of request
ReqFetch(t) ==
    /\ AtCall(t, "req_await")
    /\ LET c == call[t]
       IN \E cdp_raises \in BOOLEAN, cdp_res \in CdpResults, transient \in BOOLEAN :
                 LET exc == IF cdp_raises \/ ~page.up THEN "Exception"
                            ELSE ExecFetchRaises(cdp_res)
                     stored == /\ exc = "ok"
                               /\ ShouldStore(c.cache_ttl, cdp_res)
                               /\ ConnCall(transient) = "ok"
                     got == IF cdp_raises \/ ~page.up THEN None ELSE cdp_res
                 IN /\ call' = [call EXCEPT ![t] =
                                  Ended([c EXCEPT !.cdp_res = got],
                                        IF exc = "ok" THEN cdp_res ELSE None, exc)]
                    /\ table' = IF stored
                                THEN InsertOrReplace(table,
                                       Row(c.cache_key, json_dumps(cdp_res),
                                           ExpiresAt(clock, c.cache_ttl.seconds)))
                                ELSE table
                    /\ recorded' = IF stored
                                   THEN {p \in recorded : p[1] # c.cache_key}
                                        \cup {<<c.cache_key,
                                                <<c.options.method, c.url, c.options.body>>>>}
                                   ELSE recorded
    /\ UNCHANGED <<clock, lock, connOpen, schemaOk, frame, lastWrite, clearedAll>>
    /\ UNCHANGED <<headless, page, user_agent, auto_navigate_for_cors, base_url>>

(* _restart_browser *)
\* except Exception: pass (around self._page.quit())
ReraiseQuitException(exc) == FALSE
ExceptQuitException(exc) == TRUE

\* if self._page: self._page.quit(), its errors ignored; then self._page = None
RestartQuit(t, from, to) ==
    /\ AtCall(t, from)
    /\ \E raises \in BOOLEAN :
         LET exc == IF page.up /\ raises THEN "Exception" ELSE "ok"
         IN IF exc = "ok" \/ ExceptQuitException(exc)
            THEN /\ page' = NoPage
                 /\ call' = [call EXCEPT ![t].pc = to, ![t].quit_exc = exc]
            ELSE /\ page' = page
                 /\ call' = [call EXCEPT ![t] = Ended(call[t], None, exc)]
    /\ UNCHANGED <<headless, user_agent, auto_navigate_for_cors, base_url, recorded>>
    /\ UNCHANGED cacheVars

\* time.sleep(2.0): the profile locks are released
RestartSettle(t, from, to) ==
    /\ AtCall(t, from)
    /\ call' = [call EXCEPT ![t].pc = to]
    /\ UNCHANGED <<headless, page, user_agent, auto_navigate_for_cors, base_url, recorded>>
    /\ UNCHANGED cacheVars

\* self.headless = headless; self._init_browser(), which raises BrowserInitError
\* when the browser does not start
RestartLaunch(t, from, mode, to) ==
    /\ AtCall(t, from)
    /\ headless' = mode
    /\ \E started \in BOOLEAN :
         IF started
         THEN /\ page' = NewPage(mode, user_agent)
              /\ call' = [call EXCEPT ![t].pc = to]
         ELSE /\ page' = page
              /\ call' = [call EXCEPT ![t] = Ended(call[t], None, "BrowserInitError")]
    /\ UNCHANGED <<user_agent, auto_navigate_for_cors, base_url, recorded>>
    /\ UNCHANGED cacheVars

(* wait_for_login *)
\* original_url = self.current_url
WflStart(t, timeout, start_url) ==
    /\ FreeCall(t)
    /\ \E raises \in BOOLEAN :
         LET c == [IdleCall EXCEPT !.op = "wait_for_login", !.timeout = timeout,
                                   !.start_url = start_url]
         IN call' = [call EXCEPT ![t] =
                       IF raises /\ page.up
                       THEN Ended(c, None, "Exception")
                       ELSE [c EXCEPT !.pc = "wfl_quit_gui",
                                      !.original_url = IF page.up THEN page.url ELSE NoUrl]]
    /\ UNCHANGED <<headless, page, user_agent, auto_navigate_for_cors, base_url, recorded>>
    /\ UNCHANGED cacheVars

WflQuitHeadless(t) == RestartQuit(t, "wfl_quit_gui", "wfl_settle_gui")

WflSettleGui(t) == RestartSettle(t, "wfl_settle_gui", "wfl_launch_gui")

WflLaunchGui(t) == RestartLaunch(t, "wfl_launch_gui", FALSE, "wfl_navigate")

\* self.page.get(target_url); an exception leaves through the finally block
WflNavigate(t) ==
    /\ AtCall(t, "wfl_navigate")
    /\ LET c == [call[t] EXCEPT !.quit_exc = "ok"]
           target_url == IF c.start_url # NoUrl THEN c.start_url ELSE c.original_url
       IN IF target_url # NoUrl /\ target_url # AboutBlank
          THEN \E raises \in BOOLEAN :
                 IF ~page.up
                 THEN /\ page' = page
                      /\ call' = [call EXCEPT ![t] = [c EXCEPT !.pc = "wfl_quit_interactive",
                                                               !.pending = "BrowserInitError"]]
                 ELSE IF raises
                 THEN /\ page' = page
                      /\ call' = [call EXCEPT ![t] = [c EXCEPT !.pc = "wfl_quit_interactive",
                                                               !.pending = "Exception"]]
                 ELSE /\ page' = [page EXCEPT !.url = target_url]
                      /\ call' = [call EXCEPT ![t] = [c EXCEPT !.pc = "wfl_deadline"]]
          ELSE /\ page' = page
               /\ call' = [call EXCEPT ![t] = [c EXCEPT !.pc = "wfl_deadline"]]
    /\ UNCHANGED <<headless, user_agent, auto_navigate_for_cors, base_url, recorded>>
    /\ UNCHANGED cacheVars

NeverPastDeadline(elapsed, timeout) == FALSE

\* time.time() - start_time > timeout
PastDeadline(elapsed, timeout) == elapsed > timeout

\* if time.time() - start_time > timeout: break
WflDeadline(t) ==
    /\ AtCall(t, "wfl_deadline")
    /\ call' = [call EXCEPT ![t].pc = IF PastDeadline(call[t].elapsed, call[t].timeout)
                                      THEN "wfl_quit_interactive" ELSE "wfl_poll"]
    /\ UNCHANGED <<headless, page, user_agent, auto_navigate_for_cors, base_url, recorded>>
    /\ UNCHANGED cacheVars

\* what one evaluation of re.search(success_url_pattern, self.page.url) does
PollOutcomes == {"raises", "nomatch", "match"}

PollAlwaysMatched(outcome) == TRUE

\* if re.search(success_url_pattern, current_url): (an exception leaves the try)
PollMatched(outcome) == outcome = "match"

\* one poll: the URL is read and matched; an exception is caught by the loop's
\* except clause, a URL that does not match falls through to the sleep
WflPoll(t) ==
    /\ AtCall(t, "wfl_poll")
    /\ \E outcome \in PollOutcomes :
         /\ outcome = "match" => page.up
         /\ call' = [call EXCEPT ![t] =
                       IF PollMatched(outcome)
                       THEN [@ EXCEPT !.pc = "wfl_user_agent", !.matched = (outcome = "match")]
                       ELSE [@ EXCEPT !.pc = "wfl_sleep",
                                      !.poll_failed = @ \/ outcome = "raises"]]
    /\ UNCHANGED <<headless, page, user_agent, auto_navigate_for_cors, base_url, recorded>>
    /\ UNCHANGED cacheVars

\* try: self._user_agent = self.page.user_agent; except Exception: pass
WflUserAgent(t) ==
    /\ AtCall(t, "wfl_user_agent")
    /\ \E ua_raises \in BOOLEAN :
         user_agent' = IF ua_raises \/ ~page.up THEN user_agent ELSE "gui"
    /\ call' = [call EXCEPT ![t].pc = "wfl_cookies"]
    /\ UNCHANGED <<headless, page, auto_navigate_for_cors, base_url, recorded>>
    /\ UNCHANGED cacheVars

\* time.sleep(3.0); captured_cookies = self.page.cookies(); break
\* (an exception is caught by the loop's except clause, and the loop goes on)
WflCookies(t) ==
    /\ AtCall(t, "wfl_cookies")
    /\ \E cookies_raise \in BOOLEAN, jar \in CookieJarsIn :
         call' = [call EXCEPT ![t] =
                    IF cookies_raise \/ ~page.up
                    THEN [@ EXCEPT !.pc = "wfl_sleep", !.poll_failed = TRUE]
                    ELSE [@ EXCEPT !.pc = "wfl_quit_interactive",
                                   !.captured_cookies =
                                       [captured |-> TRUE, jar |-> jar]]]
    /\ UNCHANGED <<headless, page, user_agent, auto_navigate_for_cors, base_url, recorded>>
    /\ UNCHANGED cacheVars

\* time.sleep(1.0): at least one more second has elapsed at the next check
WflSleep(t) ==
    /\ AtCall(t, "wfl_sleep")
    /\ LET c == call[t]
           cap == c.timeout + 1
       IN call' = [call EXCEPT ![t] =
                     [c EXCEPT !.pc = "wfl_deadline", !.matched = FALSE,
                               !.elapsed = IF c.elapsed + 1 > cap THEN cap ELSE c.elapsed + 1]]
    /\ UNCHANGED <<headless, page, user_agent, auto_navigate_for_cors, base_url, recorded>>
    /\ UNCHANGED cacheVars

\* finally: self._restart_browser(headless=True)
WflQuitInteractive(t) == RestartQuit(t, "wfl_quit_interactive", "wfl_settle_headless")

WflSettleHeadless(t) == RestartSettle(t, "wfl_settle_headless", "wfl_launch_headless")

WflLaunchHeadless(t) == RestartLaunch(t, "wfl_launch_headless", TRUE, "wfl_restore")

\* the finally block after the restart: the cookies restored when some were
\* captured, every exception logged; then the pending exception, if any, goes on
WflRestore(t) ==
    /\ AtCall(t, "wfl_restore")
    /\ LET c == call[t]
           target == RestoreTarget(c.start_url, c.original_url)
       IN IF ~ShouldRestore(c.captured_cookies)
          THEN /\ call' = [call EXCEPT ![t] = Ended(c, None, c.pending)]
               /\ page' = page
          ELSE IF target = NoUrl
          THEN /\ call' = [call EXCEPT ![t] = [c EXCEPT !.pc = "wfl_inject"]]
               /\ page' = page
          ELSE \E nav_raises \in BOOLEAN :
                 LET raised == IF ~page.up THEN "BrowserInitError"
                               ELSE IF nav_raises THEN "Exception"
                               ELSE "ok"
                 IN IF raised = "ok"
                    THEN /\ page' = [page EXCEPT !.url = target]
                         /\ call' = [call EXCEPT ![t] = [c EXCEPT !.pc = "wfl_inject"]]
                    ELSE /\ page' = page
                         /\ call' = [call EXCEPT ![t] =
                                       Ended(c, None, IF ExceptException(raised)
                                                      THEN c.pending ELSE raised)]
    /\ UNCHANGED <<headless, user_agent, auto_navigate_for_cors, base_url, recorded>>
    /\ UNCHANGED cacheVars

\* the cookies are sanitized and self.page.set.cookies(sanitized_cookies) is called
WflInject(t) ==
    /\ AtCall(t, "wfl_inject")
    /\ LET c == call[t]
           sanitized_cookies == {CleanCookie(k) : k \in c.captured_cookies.jar}
       IN \E set_raises \in BOOLEAN :
            LET raised == IF ~page.up THEN "BrowserInitError"
                          ELSE IF set_raises THEN "Exception"
                          ELSE "ok"
            IN IF raised = "ok"
               THEN /\ page' = [page EXCEPT !.jar = sanitized_cookies]
                    /\ call' = [call EXCEPT ![t] = [c EXCEPT !.pc = "wfl_reload"]]
               ELSE /\ page' = page
                    /\ call' = [call EXCEPT ![t] =
                                  Ended(c, None, IF ExceptException(raised)
                                                 THEN c.pending ELSE raised)]
    /\ UNCHANGED <<headless, user_agent, auto_navigate_for_cors, base_url, recorded>>
    /\ UNCHANGED cacheVars

\* self.page.refresh() and the two load waits, in a try of their own whose
\* except clause logs and goes on: the reload changes neither URL nor cookies
WflReload(t) ==
    /\ AtCall(t, "wfl_reload")
    /\ call' = [call EXCEPT ![t] = Ended(call[t], None, call[t].pending)]
    /\ UNCHANGED <<headless, page, user_agent, auto_navigate_for_cors, base_url, recorded>>
    /\ UNCHANGED cacheVars

(* close *)
\* called once, when no other call is in progress
ClientCloseStart(t) ==
    /\ \A u \in ClientCallers : FreeCall(u)
    /\ call' = [call EXCEPT ![t] = [IdleCall EXCEPT !.pc = "close_quit", !.op = "close"]]
    /\ UNCHANGED <<headless, page, user_agent, auto_navigate_for_cors, base_url, recorded>>
    /\ UNCHANGED cacheVars

\* if self._page: self._page.quit(), whose exception leaves close
ClientCloseQuit(t) ==
    /\ AtCall(t, "close_quit")
    /\ IF page.up
       THEN \E raises \in BOOLEAN :
              IF raises
              THEN /\ page' = page
                   /\ call' = [call EXCEPT ![t] = Ended(call[t], None, "Exception")]
              ELSE /\ page' = NoPage
                   /\ call' = [call EXCEPT ![t].pc = "close_cache"]
       ELSE /\ page' = page
            /\ call' = [call EXCEPT ![t].pc = "close_cache"]
    /\ UNCHANGED <<headless, user_agent, auto_navigate_for_cors, base_url, recorded>>
    /\ UNCHANGED cacheVars

\* self.cache.close(): RequestCache.close, which logs an sqlite3.Error
ClientCloseCache(t) ==
    /\ AtCall(t, "close_cache")
    /\ \E transient \in BOOLEAN :
         LET raised == ConnCall(transient)
             exc == IF raised = "ok" \/ ExceptSqliteError(raised) THEN "ok" ELSE raised
         IN /\ connOpen' = IF raised = "ok" THEN FALSE ELSE connOpen
            /\ call' = [call EXCEPT ![t] =
                          Ended([call[t] EXCEPT !.cache_closes = @ + 1], None, exc)]
    /\ UNCHANGED <<clock, table, lock, schemaOk, frame, lastWrite, clearedAll>>
    /\ UNCHANGED <<headless, page, user_agent, auto_navigate_for_cors, base_url, recorded>>

ClientNext ==
    \/ ClientTick
    \/ \E t \in ClientCallers, r \in RequestsIn :
         ReqStart(t, r.method, r.endpoint, r.params, r.data, r.json_data, r.headers,
                  r.cache_ttl)
    \/ \E t \in ClientCallers : ReqCors(t)
    \/ \E t \in ClientCallers : ReqNavigate(t)
    \/ \E t \in ClientCallers : ReqCache(t)
    \/ \E t \in ClientCallers : ReqSend(t)
    \/ \E t \in ClientCallers : ReqFetch(t)
    \/ \E t \in HandoffCallers, timeout \in TimeoutsIn, u \in StartUrlsIn :
         WflStart(t, timeout, u)
    \/ \E t \in ClientCallers : WflQuitHeadless(t)
    \/ \E t \in ClientCallers : WflSettleGui(t)
    \/ \E t \in ClientCallers : WflLaunchGui(t)
    \/ \E t \in ClientCallers : WflNavigate(t)
    \/ \E t \in ClientCallers : WflDeadline(t)
    \/ \E t \in ClientCallers : WflPoll(t)
    \/ \E t \in ClientCallers : WflUserAgent(t)
    \/ \E t \in ClientCallers : WflCookies(t)
    \/ \E t \in ClientCallers : WflSleep(t)
    \/ \E t \in ClientCallers : WflQuitInteractive(t)
    \/ \E t \in ClientCallers : WflSettleHeadless(t)
    \/ \E t \in ClientCallers : WflLaunchHeadless(t)
    \/ \E t \in ClientCallers : WflRestore(t)
    \/ \E t \in ClientCallers : WflInject(t)
    \/ \E t \in ClientCallers : WflReload(t)
    \/ \E t \in ClientCallers : ClientCloseStart(t)
    \/ \E t \in ClientCallers : ClientCloseQuit(t)
    \/ \E t \in ClientCallers : ClientCloseCache(t)

ClientSpec == ClientInit /\ [][ClientNext]_vars

\* a step of the polling loop of wait_for_login
LoopStep(t) ==
    WflDeadline(t) \/ WflPoll(t) \/ WflUserAgent(t) \/ WflCookies(t) \/ WflSleep(t)

\* the client, when every call the polling loop makes (the clock, the session's
\* URL, user agent and cookies, the sleeps) returns: a thread in the loop is not
\* stopped for ever
HandoffSpec ==
    ClientInit /\ [][ClientNext]_vars /\ \A t \in Threads : WF_vars(t \in ClientCallers /\ LoopStep(t))

----------------------------------------------------------------------------
(* Calls of RequestCache.generate_key, one per thread: KeySpec *)

Methods == {"GET", "get", "POST"}
KeyUrls == {Url("https", "a.example", "/secure"), Url("https", "b.example", "/x")}
KeyParams == {NoBody, Body(<<<<1, 1>>>>)}
KeyBodies == {NoBody, Body(<<>>), Body(<<<<1, 1>>, <<2, 1>>>>), Body(<<<<2, 1>>, <<1, 1>>>>)}
KeyJsonBodies == {NoBody, Body(<<>>), Body(<<<<1, 1>>>>)}

KeyInit ==
    /\ clock = 0
    /\ table = {}
    /\ lock = NoThread
    /\ connOpen = TRUE
    /\ schemaOk = TRUE
    /\ frame = [t \in Threads |-> IdleFrame]
    /\ lastWrite = [k \in CacheKeys |-> NoWrite]
    /\ clearedAll = {}
    /\ headless = TRUE
    /\ page = NoPage
    /\ user_agent = NoUserAgent
    /\ auto_navigate_for_cors = TRUE
    /\ base_url = BaseUrl
    /\ recorded = {}
    /\ call = [t \in {} |-> IdleCall]

\* generate_key takes no lock and touches no state of the cache
GenerateKeyCall(t, method, url, params, data, json_data) ==
    /\ frame' = [frame EXCEPT ![t] =
                   [pc |-> "done", op |-> "generate_key", method |-> method, url |-> url,
                    params |-> params, data |-> data, json_data |-> json_data,
                    ret |-> GenerateKey(method, url, params, data, json_data)]]
    /\ UNCHANGED <<clock, table, lock, connOpen, schemaOk, lastWrite, clearedAll>>
    /\ UNCHANGED clientVars

KeyNext ==
    \E t \in Callers, method \in Methods, url \in KeyUrls, params \in KeyParams,
       data \in KeyBodies, json_data \in KeyJsonBodies :
        GenerateKeyCall(t, method, url, params, data, json_data)

KeySpec == KeyInit /\ [][KeyNext]_vars

----------------------------------------------------------------------------
(* Properties of the cache store *)

\* a ResponseRecord: a mapping with all seven fields
IsResponseRecord(v) == v.kind = "dict" /\ REQUIRED_KEYS \subseteq DictKeys(v)

\* thread t's get runs its SELECT in this step and the statement does not fail
GetReads(t) ==
    /\ frame[t].pc = "get_select"
    /\ frame'[t].pc # "get_select"
    /\ ~(frame'[t].pc = "done" /\ frame'[t].exc # "ok")

GetReturned(t) == frame'[t].pc = "done" /\ frame'[t].ret # None

\* C3. TTL correctness: when the last committed set(k, v, ttl) of a ResponseRecord
\* v has had its row neither replaced nor deleted since, a get(k) that read the
\* clock as now returns v if and only if now < time of set + ttl; otherwise it
\* does not return a record (it goes on to purge the row and returns None).
C3_TtlCorrectness ==
    [][\A t \in Callers :
         LET w == lastWrite[frame[t].key]
         IN (GetReads(t) /\ w.live /\ IsResponseRecord(w.value))
            => /\ (frame[t].now < w.due) <=> (GetReturned(t) /\ frame'[t].ret = w.value)
               /\ ~(frame[t].now < w.due) <=> (frame'[t].pc = "get_delete")]_vars

C3_Witness ==
    \E t \in Callers :
        /\ frame[t].pc = "done" /\ frame[t].op = "get" /\ frame[t].exc = "ok"
        /\ frame[t].ret = RecordA
        /\ frame[t].row.expires_at = frame[t].now + 1

OneRowPerKey == \A r1, r2 \in table : r1.key = r2.key => r1 = r2

\* C4. Replace-on-write: the table never holds two rows of one key, and once some
\* set(k, ...) has committed, a get(k) that returns a record returns the value of
\* the most recent committed set(k, ...), within that set's expiry.
C4_ReplaceOnWrite ==
    /\ []OneRowPerKey
    /\ [][\A t \in Callers :
            LET w == lastWrite[frame[t].key]
            IN (GetReads(t) /\ GetReturned(t) /\ w.any)
               => (w.live /\ frame'[t].ret = w.value /\ frame[t].now < w.due)]_vars

\* a set has replaced a row, and a get has returned the value last written
C4_Witness ==
    /\ \E t \in Callers :
        /\ frame[t].pc = "done" /\ frame[t].op = "set" /\ frame[t].exc = "ok"
        /\ frame[t].gone = 1
    /\ \E t \in Callers :
        /\ frame[t].pc = "done" /\ frame[t].op = "get" /\ frame[t].ret = RecordB
        /\ lastWrite[frame[t].key].live
        /\ lastWrite[frame[t].key].value = RecordB

\* the row a finished get read was unexpired
ReadUnexpired(f) == f.row # NoRow /\ f.now < f.row.expires_at

\* C5. Structural validation: a get returns only mappings holding all seven
\* required fields; when the unexpired row it read holds a value that is
\* undecodable, not a mapping or lacks a required field, it returns None.
C5_StructuralValidation ==
    \A t \in Callers :
        LET f == frame[t]
        IN (f.pc = "done" /\ f.op = "get")
           => /\ (f.ret # None => IsResponseRecord(f.ret))
              /\ (ReadUnexpired(f) /\ f.row.value.form # "object") => f.ret = None
              /\ (ReadUnexpired(f) /\ f.row.value.form = "object"
                    /\ ~(REQUIRED_KEYS \subseteq {p[1] : p \in f.row.value.pairs}))
                 => f.ret = None

\* a get has read an unexpired row whose value lacks exactly statusText
C5_Witness ==
    \E t \in Callers :
        /\ frame[t].pc = "done" /\ frame[t].op = "get" /\ frame[t].exc = "ok"
        /\ ReadUnexpired(frame[t])
        /\ frame[t].row.value = json_dumps(RecordNoStatusText)
        /\ frame[t].ret = None

\* thread t's statement at pc commits in this step
Commits(t, pc) ==
    /\ frame[t].pc = pc
    /\ frame'[t].pc = "done"
    /\ frame'[t].exc = "ok"

\* C6. clear_expired, when its DELETE commits, removes exactly the rows whose
\* expires_at is less than the time clear_expired read, and leaves the others as
\* they were.
C6_ClearExpiredExact ==
    [][\A t \in Callers :
         Commits(t, "sweep_delete")
         => table' = {r \in table : ~(r.expires_at < frame[t].now)}]_vars

\* a clear_expired has removed a row and left another
C6_Witness ==
    \E t \in Callers :
        /\ frame[t].pc = "done" /\ frame[t].op = "clear_expired" /\ frame[t].exc = "ok"
        /\ frame[t].gone > 0
        /\ table # {}

\* C7. After a clear_all whose DELETE committed, no row is stored for a key until
\* a set writes that key, and a get of such a key returns None.
C7_ClearAllEmpties ==
    /\ [](\A k \in clearedAll : RowsOf(table, k) = {})
    /\ [][\A t \in Callers :
            (GetReads(t) /\ frame[t].key \in clearedAll)
            => (frame'[t].pc = "done" /\ frame'[t].ret = None)]_vars

\* after a clear_all one key was written again, and a get of the other returned
C7_Witness ==
    \E t \in Callers :
        /\ frame[t].pc = "done" /\ frame[t].op = "get" /\ frame[t].exc = "ok"
        /\ frame[t].key \in clearedAll
        /\ clearedAll # CacheKeys
        /\ table # {}

\* C8. Cache failures are absorbed: every call of get, set, clear_expired,
\* clear_all and close returns normally, and a get whose statement failed
\* returns None.
C8_FailuresAbsorbed ==
    \A t \in Callers :
        frame[t].pc = "done"
        => /\ frame[t].outcome = "returned"
           /\ (frame[t].exc # "ok" /\ frame[t].op = "get") => frame[t].ret = None

\* a get was made on the closed connection
C8_Witness ==
    \E t \in Callers :
        /\ frame[t].pc = "done" /\ frame[t].op = "get"
        /\ frame[t].exc = "sqlite3.ProgrammingError"
        /\ ~connOpen

\* the thread is at a statement on self.conn
UsesConn(t) ==
    frame[t].pc \in {"get_select", "get_delete", "set_insert", "sweep_delete",
                     "wipe_delete", "close_conn"}

\* C9. Mutual exclusion: every thread at an operation on the shared connection
\* holds the lock, so no two threads are at one together.
C9_ConnUnderLock ==
    /\ \A t \in Callers : UsesConn(t) => lock = t
    /\ Cardinality({t \in Callers : UsesConn(t)}) <= 1

----------------------------------------------------------------------------
(* Properties of the client *)

WaitForLoginEnded(t) == call[t].pc = "done" /\ call[t].op = "wait_for_login"

\* C1. Handoff post-condition: when wait_for_login has ended (returned or raised),
\* on a client no other thread is using, the client is in Automated mode: its
\* headless flag is set and it holds a headless session.
C1_HandoffEndsAutomated ==
    \A t \in ClientCallers :
        (WaitForLoginEnded(t) /\ ~ClientContended)
        => (headless /\ page.up /\ page.headless)

\* C2. wait_for_login never raises to its caller.
C2_HandoffNeverRaises ==
    \A t \in ClientCallers : WaitForLoginEnded(t) => call[t].outcome = "returned"

\* the thread is inside a fetch (run_cdp) or a navigation (page.get) on the session
InFlight(t) ==
    LET c == call[t]
        target_url == IF c.start_url # NoUrl THEN c.start_url ELSE c.original_url
    IN \/ c.pc \in {"req_navigate", "req_await"}
       \/ c.pc = "wfl_navigate" /\ target_url # NoUrl /\ target_url # AboutBlank

\* C10. Single-session discipline: at most one fetch or navigation is in flight
\* against the client's session at any time.
C10_OneSessionOperation == Cardinality({t \in ClientCallers : InFlight(t)}) <= 1

----------------------------------------------------------------------------
(* Properties of the fingerprint *)

KeyDone(t) == frame[t].pc = "done" /\ frame[t].op = "generate_key"

\* the two calls were given the same method (as HTTP methods, whatever the
\* case), URL, form body and JSON body
SameMethod(f, g) == Upper(f.method) = Upper(g.method)
SameUrl(f, g) == f.url = g.url
SameData(f, g) == SameDict(f.data, g.data)
SameJson(f, g) == SameDict(f.json_data, g.json_data)

\* the number of method, URL, form body and JSON body in which the calls differ
Differences(f, g) ==
    (IF SameMethod(f, g) THEN 0 ELSE 1) + (IF SameUrl(f, g) THEN 0 ELSE 1)
    + (IF SameData(f, g) THEN 0 ELSE 1) + (IF SameJson(f, g) THEN 0 ELSE 1)

\* C11. Fingerprint determinism and sensitivity: two calls of generate_key with
\* identical arguments return the same key, and two calls that differ in exactly
\* one of method, URL, form body and JSON body return different keys.
C11_KeyDeterminismSensitivity ==
    \A t1, t2 \in Callers :
        (KeyDone(t1) /\ KeyDone(t2) /\ SameDict(frame[t1].params, frame[t2].params))
        => /\ Differences(frame[t1], frame[t2]) = 0 => frame[t1].ret = frame[t2].ret
           /\ Differences(frame[t1], frame[t2]) = 1 => frame[t1].ret # frame[t2].ret

----------------------------------------------------------------------------
(* Properties of request *)

InRequest(t) == call[t].op = "request" /\ call[t].pc # "done"

\* the URL the request is sent to: the endpoint resolved, then the query string
\* of params after the endpoint's own
SentUrl(c) ==
    LET resolved == ResolveUrl(c.endpoint)
    IN IF c.params.given /\ c.params.items # <<>>
       THEN [resolved EXCEPT !.query = c.endpoint.query \o c.params.items]
       ELSE resolved

\* the fingerprint of (method, final URL, form body, JSON body), params empty
Fingerprint(c) ==
    <<Upper(c.method), SentUrl(c), <<>>, BodyStr(c.data), BodyStr(c.json_data)>>

\* C12. Query parameters are folded into the URL before fingerprinting: the key a
\* request computes is the fingerprint of its method, its final URL with the
\* query string and its bodies, with an empty params component, whether the query
\* came in params or in the endpoint; so requests with the same final URL use the
\* same key, and no row is stored under a key with a params component.
C12_ParamsFoldedIntoUrl ==
    /\ \A t \in ClientCallers :
          (InRequest(t) /\ call[t].cache_key # NoKey)
          => /\ call[t].cache_key = Fingerprint(call[t])
             /\ call[t].cache_key[3] = <<>>
    /\ \A t1, t2 \in ClientCallers :
          (InRequest(t1) /\ InRequest(t2) /\ call[t1].cache_key # NoKey
             /\ call[t2].cache_key # NoKey /\ SentUrl(call[t1]) = SentUrl(call[t2]))
          => call[t1].cache_key = call[t2].cache_key
    /\ \A r \in table : r.key[3] = <<>>

\* a request passing its query in params has computed the key that a request
\* with the query in its endpoint computes, and a row is stored under that key
C12_Witness ==
    \E t \in ClientCallers :
        /\ InRequest(t) /\ call[t].cache_key # NoKey
        /\ call[t].params # NoBody
        /\ call[t].endpoint.query = <<>>
        /\ call[t].cache_key =
             <<"GET", ResolveUrl(EndpointWithQuery), <<>>, <<>>, <<>>>>
        /\ \E r \in table : r.key = call[t].cache_key

\* the rows of the table that are a hit for the request at time now: stored under
\* its fingerprint, unexpired, holding a valid record
HitRows(c, now) ==
    {r \in table : r.key = Fingerprint(c) /\ now < r.expires_at /\ Decode(r.value) # None}

\* thread t's request goes from pc to its end in this step
RequestEnds(t, pcs) ==
    /\ call[t].op = "request" /\ call[t].pc \in pcs
    /\ call'[t].pc = "done"

\* C13. A request calls the session fetch at most once and never retries: on a
\* cache hit (cache_ttl given, and a valid unexpired entry under its fingerprint
\* that the cache could read) it returns the stored record without a fetch; on a
\* miss, or with caching disabled, it goes on to the fetch and makes it once.
C13_FetchAtMostOnce ==
    /\ [](\A t \in ClientCallers : call[t].fetches <= 1)
    /\ [][\A t \in ClientCallers :
            LET c == call[t]
                hits == HitRows(c, clock)
            IN /\ (c.op = "request" /\ c.pc = "req_cache" /\ call'[t] # c)
                  => IF c.cache_ttl.given /\ hits # {}
                     THEN \/ /\ call'[t].pc = "done" /\ call'[t].outcome = "returned"
                             /\ call'[t].fetches = 0
                             /\ \E r \in hits : call'[t].ret = Decode(r.value)
                          \/ /\ call'[t].pc = "req_fetch"
                             /\ call'[t].lookup_exc \in SqliteErrors
                     ELSE call'[t].pc = "req_fetch" /\ call'[t].fetches = 0
               /\ RequestEnds(t, {"req_fetch", "req_await"}) => call'[t].fetches = 1]_vars

\* a request has returned a stored record without a fetch
C13_Witness ==
    \E t \in ClientCallers :
        /\ call[t].pc = "done" /\ call[t].op = "request"
        /\ call[t].outcome = "returned" /\ call[t].ret = RecordA
        /\ call[t].fetches = 0

\* C14. Caching is opt-in and success-only: a step adds a row only when it is the
\* end of a request with cache_ttl given whose fetch returned a record with a
\* status in 200..299, and the row is that record under the fingerprint the
\* request looked up; a request without cache_ttl never reads the cache and
\* never changes the table.
C14_OptInSuccessOnly ==
    /\ [](\A t \in ClientCallers :
            (call[t].op = "request" /\ ~call[t].cache_ttl.given /\ call[t].pc # "done")
            => call[t].lookup_exc = "none" /\ call[t].cache_key = NoKey)
    /\ [][\A t \in ClientCallers :
            LET c == call[t]
            IN /\ (c.op = "request" /\ c.pc # "done" /\ ~c.cache_ttl.given /\ call'[t] # c)
                  => table' = table
               /\ (call'[t] # c /\ table' \ table # {})
                  => /\ RequestEnds(t, {"req_await"})
                     /\ c.cache_ttl.given
                     /\ call'[t].outcome = "returned"
                     /\ IsResponseRecord(call'[t].ret)
                     /\ StatusOf(call'[t].ret) \in 200 .. 299
                     /\ c.cache_key = Fingerprint(c)
                     /\ table' \ table =
                          {Row(c.cache_key, json_dumps(call'[t].ret),
                               clock + c.cache_ttl.seconds)}]_vars

\* a request with cache_ttl got a 404 and stored nothing, while a row is stored
C14_Witness ==
    \E t \in ClientCallers :
        /\ call[t].pc = "done" /\ call[t].op = "request"
        /\ call[t].outcome = "returned" /\ call[t].ret = Status404
        /\ table # {}

----------------------------------------------------------------------------
(* Properties of the handoff *)

\* the attributes of a captured cookie that may be restored
Restorable(c) ==
    {p \in c : p[1] \in {"name", "value", "domain", "path", "expires", "size",
                         "httpOnly", "secure", "sameSite", "priority"}
               /\ (p[1] = "expires" => p[2] > 0)}

\* C15. Cookie filtering: every cookie in the Automated session has only allowed
\* attributes, and an expires attribute only when it is greater than 0; when the
\* restore injects cookies, they are the captured cookies without their
\* extraneous attributes and without an expires that is not positive, the other
\* allowed attributes unchanged.
C15_CookieFiltering ==
    /\ [](page.up /\ page.headless => \A k \in page.jar : Restorable(k) = k)
    /\ [][\A t \in ClientCallers :
            (call[t].pc = "wfl_inject" /\ call'[t] # call[t] /\ page'.jar # page.jar)
            => page'.jar = {Restorable(k) : k \in call[t].captured_cookies.jar}]_vars

\* the cookie captured with expires = 0 and a session attribute is in the
\* headless session with its name, value and domain only, beside a cookie that
\* kept its positive expires
C15_Witness ==
    /\ page.up /\ page.headless
    /\ {<<"name", 1>>, <<"value", 1>>, <<"domain", 1>>} \in page.jar
    /\ {<<"name", 2>>, <<"value", 1>>, <<"expires", 5>>} \in page.jar
    /\ \E t \in ClientCallers : WaitForLoginEnded(t) /\ call[t].outcome = "returned"

----------------------------------------------------------------------------
(* Properties of the fetch failures *)

\* the kind of failure a result of the fetch script stands for
FailureKind(res) ==
    IF res.kind = "exceptionDetails" THEN "ExecutionFailure"
    ELSE IF res = AbortErrorValue THEN "TimeoutFailure"
    ELSE IF res.kind = "dict" /\ "error" \notin DictKeys(res)
            /\ ~(REQUIRED_KEYS \subseteq DictKeys(res)) THEN "StructuralMismatch"
    ELSE "other"

\* the request of t raised on the result the fetch script gave back
FetchFailed(t) ==
    /\ call[t].pc = "done" /\ call[t].op = "request" /\ call[t].outcome = "raised"
    /\ call[t].cdp_res # None
    /\ FailureKind(call[t].cdp_res) # "other"

\* C16. Fetch failures are surfaced as distinct kinds: a fetch past its deadline
\* raises a timeout error, and two requests that failed with different kinds of
\* failure (timeout, script error, result missing required fields) raised
\* exceptions of different types.
C16_FailureKindsDistinct ==
    /\ \A t \in ClientCallers :
          (FetchFailed(t) /\ FailureKind(call[t].cdp_res) = "TimeoutFailure")
          => call[t].exc = "TimeoutError"
    /\ \A t1, t2 \in ClientCallers :
          (FetchFailed(t1) /\ FetchFailed(t2)
             /\ FailureKind(call[t1].cdp_res) # FailureKind(call[t2].cdp_res))
          => call[t1].exc # call[t2].exc

----------------------------------------------------------------------------
(* Properties of the session and of shutdown *)

\* the thread is inside _restart_browser, between the quit and the launch
Restarting(t) ==
    call[t].pc \in {"wfl_settle_gui", "wfl_launch_gui", "wfl_settle_headless",
                    "wfl_launch_headless"}

\* C17. Exactly one session per client: whenever no restart is in progress (and
\* the client has not been shut down), the client holds a live session.
C17_OneSession ==
    (\A t \in ClientCallers : ~Restarting(t) /\ call[t].op # "close") => page.up

LoopPcs == {"wfl_deadline", "wfl_poll", "wfl_user_agent", "wfl_cookies", "wfl_sleep"}
InPollingLoop(t) ==
    call[t].op = "wait_for_login" /\ call[t].pc \in LoopPcs

\* C18. HandoffTimeout: while no poll has matched no cookies are captured; once
\* the timeout has elapsed the deadline check leaves the polling loop, still
\* without cookies; and a wait_for_login that captured no cookies leaves the
\* relaunched session as it is (no navigation to the origin, no cookies set).
C18_HandoffTimeout ==
    /\ [](\A t \in ClientCallers : InPollingLoop(t) => call[t].captured_cookies = NoCookies)
    /\ [][\A t \in ClientCallers :
            LET c == call[t]
            IN /\ (c.pc = "wfl_deadline" /\ c.elapsed > c.timeout /\ call'[t] # c)
                  => /\ call'[t].pc = "wfl_quit_interactive"
                     /\ call'[t].captured_cookies = NoCookies
               /\ (c.pc = "wfl_restore" /\ ~c.captured_cookies.captured /\ call'[t] # c)
                  => page' = page]_vars

\* a wait_for_login has timed out and returned: no cookies, and the headless
\* session as it was launched
C18_Witness ==
    \E t \in ClientCallers :
        /\ WaitForLoginEnded(t) /\ call[t].outcome = "returned"
        /\ call[t].captured_cookies = NoCookies
        /\ page = NewPage(TRUE, user_agent)

\* the steps of the restore: the navigation, the injection, the reload
RestorePcs == {"wfl_restore", "wfl_inject", "wfl_reload"}

\* C19. Restore failures are swallowed: when cookies were captured and the
\* headless session relaunched, the restore ends wait_for_login with a normal
\* return whatever step of it failed, and (on a client no other thread is
\* using) the client is headless and holds its headless session.
C19_RestoreFailuresSwallowed ==
    [][\A t \in ClientCallers :
         (call[t].pc \in RestorePcs /\ call[t].captured_cookies.captured
            /\ call'[t] # call[t])
         => /\ \/ call'[t].pc \in RestorePcs \ {call[t].pc}
               \/ call'[t].pc = "done" /\ call'[t].outcome = "returned"
            /\ ~ClientContended => (headless' /\ page'.up /\ page'.headless)]_vars

\* cookies were captured, the navigation to the origin failed, and
\* wait_for_login returned with the headless session untouched
C19_Witness ==
    \E t \in ClientCallers :
        /\ WaitForLoginEnded(t) /\ call[t].outcome = "returned"
        /\ call[t].captured_cookies.jar # {}
        /\ page = NewPage(TRUE, user_agent)

\* C20. Shutdown: when Client.close has ended, the cache store has been closed
\* exactly once, and close returned normally.
C20_CloseClosesCacheOnce ==
    \A t \in ClientCallers :
        (call[t].pc = "done" /\ call[t].op = "close")
        => (call[t].cache_closes = 1 /\ call[t].outcome = "returned")

----------------------------------------------------------------------------
(* Properties of get under contention *)

\* C21. Lazy purge is atomic with the read: the DELETE of a get removes exactly
\* the row this get read as expired, whatever sets of the key run beside it; the
\* row it removes is expired at the time of the DELETE, so no unexpired entry is
\* lost to a get.
C21_PurgeAtomicWithRead ==
    [][\A t \in Callers :
         Commits(t, "get_delete")
         => /\ table \ table' = {frame[t].row}
            /\ table' \subseteq table
            /\ ~(frame[t].now < frame[t].row.expires_at)
            /\ ~(clock < frame[t].row.expires_at)]_vars

\* beside another thread's set of the same key, a get has purged the row it
\* read, and the row of a set is stored
C21_Witness ==
    /\ Contended
    /\ \E t, u \in Callers :
         /\ t # u
         /\ frame[t].pc = "done" /\ frame[t].op = "get" /\ frame[t].gone = 1
         /\ frame[u].pc = "done" /\ frame[u].op = "set" /\ frame[u].exc = "ok"
         /\ RowsOf(table, frame[t].key) # {}

\* thread t takes a step of its get
GetSteps(t) ==
    /\ frame[t].op = "get"
    /\ frame[t].pc \in {"get_lock", "get_select", "get_delete"}
    /\ frame'[t] # frame[t]

\* C22. Effect of get on the store: get(k) deletes the entry of k exactly when
\* it is present and expired (at the time get read), and then returns None; on
\* a miss, a valid hit or an unexpired malformed value it leaves the table as it
\* is; it never changes the entry of another key.
C22_GetFrame ==
    [][\A t \in Callers :
         LET f == frame[t]
             expired == {r \in RowsOf(table, f.key) : ~(f.now < r.expires_at)}
         IN GetSteps(t)
            => /\ {r \in table' : r.key # f.key} = {r \in table : r.key # f.key}
               /\ f.pc # "get_delete" => table' = table
               /\ (GetReads(t) /\ expired # {}) => frame'[t].pc = "get_delete"
               /\ (GetReads(t) /\ expired = {}) => frame'[t].pc = "done"
               /\ Commits(t, "get_delete")
                    => (expired # {} /\ table' = table \ expired)
               /\ (f.pc = "get_delete" /\ frame'[t].pc = "done")
                    => frame'[t].ret = None]_vars

\* a get has purged the expired row of its key and left the expired row of
\* another key in the table
C22_Witness ==
    \E t \in Callers :
        /\ frame[t].pc = "done" /\ frame[t].op = "get" /\ frame[t].exc = "ok"
        /\ frame[t].gone = 1 /\ frame[t].ret = None
        /\ \E r \in table : r.key # frame[t].key /\ ~(frame[t].now < r.expires_at)

\* C29. Freshness under contention: when a get is at its read, holding the lock,
\* every valid record of its key that it takes for fresh, and so returns, is
\* unexpired on the clock.
C29_FreshAtRead ==
    \A t \in Callers :
        (frame[t].pc = "get_select" /\ lock = t)
        => \A r \in RowsOf(table, frame[t].key) :
             (IsFresh(frame[t].now, r.expires_at) /\ Decode(r.value) # None)
             => clock < r.expires_at

\* C30. Expiry predicate agreement: for every row a get is about to read, the
\* get takes the row for expired exactly when a clear_expired run at the same
\* clock value would delete it.
C30_ExpiryAgreement ==
    \A t \in Callers :
        frame[t].pc = "get_select"
        => \A r \in RowsOf(table, frame[t].key) :
             ~IsFresh(frame[t].now, r.expires_at) <=> Sweeps(frame[t].now, r.expires_at)

----------------------------------------------------------------------------
(* Properties of a failed fetch *)

\* C23. When the fetch of a request fails (run_cdp raises, no session, a timeout,
\* a script or fetch error, a result that is not a complete ResponseRecord), the
\* request raises to its caller, and a request that raises adds no row to the
\* table and replaces none, whatever its cache_ttl.
C23_FailedFetchNotCached ==
    [][\A t \in ClientCallers :
         RequestEnds(t, {"req_fetch", "req_await"})
         => /\ ~IsResponseRecord(call'[t].cdp_res)
                 => (call'[t].outcome = "raised" /\ call'[t].exc # "ok")
            /\ call'[t].outcome = "raised" => table' = table]_vars

\* of two requests with a cache_ttl for one URL, one has stored its record and
\* the other, whose result lacked a required field, has raised and left the row
C23_Witness ==
    /\ ClientContended
    /\ table # {}
    /\ \E t \in ClientCallers :
         /\ call[t].pc = "done" /\ call[t].op = "request"
         /\ call[t].outcome = "raised" /\ call[t].cdp_res = RecordNoStatusText

----------------------------------------------------------------------------
(* Properties of the cross-origin priming *)

\* C24. Cross-origin priming, on a client one thread uses and that holds a
\* session: when request comes to its cache lookup, with auto-navigation
\* disabled it has not navigated; with it enabled, it has left the session where
\* it was only if the session is at the origin (scheme and host) of the request's
\* URL (when that URL is absolute), and a navigation that succeeded has put the session at that origin.
C24_CrossOriginPriming ==
    \A t \in ClientCallers :
        (call[t].op = "request" /\ call[t].pc = "req_cache" /\ ~ClientContended /\ page.up)
        => /\ ~auto_navigate_for_cors => call[t].primed = "off"
           /\ (auto_navigate_for_cors /\ call[t].primed = "same"
                 /\ call[t].url.netloc # "")
                => OriginOf(page.url) = OriginOf(call[t].url)
           /\ call[t].primed = "navigated"
                => (auto_navigate_for_cors /\ page.url = OriginOf(call[t].url))

----------------------------------------------------------------------------
(* Properties of the restart *)

QuitPcs == {"wfl_quit_gui", "wfl_quit_interactive"}
SettlePcOf(pc) == IF pc = "wfl_quit_gui" THEN "wfl_settle_gui" ELSE "wfl_settle_headless"
LaunchPcOf(pc) == IF pc = "wfl_settle_gui" THEN "wfl_launch_gui" ELSE "wfl_launch_headless"
ModeOf(pc) == pc = "wfl_launch_headless"

\* C25. Restart ordering: the termination of the old session always leads to the
\* settle wait, whether it raised or not, and leaves the client without a
\* session; the settle wait is entered from the termination only and the launch
\* from the settle wait only; the launch sets the requested mode and either
\* acquires a fresh session in that mode or raises BrowserInitError.
C25_RestartOrdering ==
    [][\A t \in ClientCallers :
         LET c == call[t]
             d == call'[t]
         IN d # c
            => /\ c.pc \in QuitPcs => (d.pc = SettlePcOf(c.pc) /\ page' = NoPage)
               /\ d.pc \in {"wfl_settle_gui", "wfl_settle_headless"}
                    => (c.pc \in QuitPcs /\ d.pc = SettlePcOf(c.pc))
               /\ d.pc \in {"wfl_launch_gui", "wfl_launch_headless"}
                    => (c.pc \in {"wfl_settle_gui", "wfl_settle_headless"}
                        /\ d.pc = LaunchPcOf(c.pc))
               /\ c.pc \in {"wfl_launch_gui", "wfl_launch_headless"}
                    => /\ headless' = ModeOf(c.pc)
                       /\ \/ /\ d.pc = "done" /\ d.exc = "BrowserInitError"
                             /\ page' = page
                          \/ /\ d.pc \notin {"done", c.pc}
                             /\ page' = NewPage(ModeOf(c.pc), user_agent)]_vars

\* the termination of the headless session raised, and the interactive session
\* has been launched all the same
C25_Witness ==
    \E t \in ClientCallers :
        /\ call[t].pc = "wfl_navigate"
        /\ call[t].quit_exc = "Exception"
        /\ page = NewPage(FALSE, user_agent)
        /\ ~headless

----------------------------------------------------------------------------
(* Properties of the order of the handoff's steps *)

\* where wait_for_login is while the session it launched for the user is up
InteractivePcs == {"wfl_navigate"} \cup LoopPcs

\* C26. Handoff step ordering, for every step of a wait_for_login under way:
\* (a) cookies are captured only by the capture step, which follows the
\* user-agent step, which follows a poll that matched, and the session they are
\* read from is up and interactive; (b) from the navigation and the polling loop
\* the call goes nowhere but to the restart back to headless, which quits,
\* settles and launches before anything is restored; (c) the injection follows
\* the navigation to the restore target, made in the relaunched session, the
\* reload follows the injection of the sanitized cookies, and the call ends
\* after the reload.
C26_HandoffStepOrdering ==
    [][\A t \in ClientCallers :
         LET c == call[t]
             d == call'[t]
             target == RestoreTarget(c.start_url, c.original_url)
         IN (c.op = "wait_for_login" /\ c.pc # "done" /\ d # c)
            => /\ (d.captured_cookies.captured /\ ~c.captured_cookies.captured)
                    => (c.pc = "wfl_cookies" /\ c.matched /\ page.up /\ ~page.headless)
               /\ d.pc = "wfl_cookies" => c.pc = "wfl_user_agent"
               /\ d.pc = "wfl_user_agent" => (c.pc = "wfl_poll" /\ d.matched)
               /\ c.pc \in InteractivePcs
                    => d.pc \in InteractivePcs \cup {"wfl_quit_interactive"}
               /\ c.pc = "wfl_quit_interactive" => d.pc = "wfl_settle_headless"
               /\ c.pc = "wfl_settle_headless" => d.pc = "wfl_launch_headless"
               /\ d.pc = "wfl_restore"
                    => (c.pc = "wfl_launch_headless" /\ page'.up /\ page'.headless)
               /\ d.pc = "wfl_inject"
                    => /\ c.pc = "wfl_restore" /\ c.captured_cookies.captured
                       /\ target # NoUrl => page'.url = target
               /\ page'.jar \notin {page.jar, {}} => c.pc = "wfl_inject"
               /\ d.pc = "wfl_reload"
                    => /\ c.pc = "wfl_inject"
                       /\ page'.jar = {CleanCookie(k) : k \in c.captured_cookies.jar}
               /\ c.pc = "wfl_reload" => d.pc = "done"]_vars

\* a handoff has run to its end on a client one thread uses: the cookies captured
\* from the interactive session are, sanitized, in the headless session, which
\* is at the restore target
C26_Witness ==
    \E t \in ClientCallers :
        /\ ~ClientContended
        /\ WaitForLoginEnded(t) /\ call[t].outcome = "returned"
        /\ call[t].captured_cookies.jar # {}
        /\ page.up /\ page.headless
        /\ page.jar = {CleanCookie(k) : k \in call[t].captured_cookies.jar}
        /\ page.url = RestoreTarget(call[t].start_url, call[t].original_url)

----------------------------------------------------------------------------
(* Properties of the polling loop *)

\* C27. Polling is bounded and tolerant of errors: a poll or a cookie capture
\* that raises goes on to the sleep and the call stays in the loop; every poll
\* follows a deadline check, and every deadline check but the first follows the
\* sleep of one interval; the deadline check made when the elapsed time exceeds
\* the timeout leaves the loop; and a thread in the loop always comes to the
\* restart back to headless.
C27_PollingBounded ==
    /\ [][\A t \in ClientCallers :
            LET c == call[t]
                d == call'[t]
            IN (c.op = "wait_for_login" /\ d # c)
               => /\ (c.pc \in {"wfl_poll", "wfl_cookies"} /\ d.poll_failed /\ ~c.poll_failed)
                       => d.pc = "wfl_sleep"
                  /\ c.pc = "wfl_sleep" => d.pc = "wfl_deadline"
                  /\ d.pc = "wfl_poll" => c.pc = "wfl_deadline"
                  /\ d.pc = "wfl_deadline" => c.pc \in {"wfl_navigate", "wfl_sleep"}
                  /\ (c.pc = "wfl_deadline" /\ c.elapsed > c.timeout)
                       => d.pc = "wfl_quit_interactive"
                  /\ c.pc \in LoopPcs => d.pc \in LoopPcs \cup {"wfl_quit_interactive"}]_vars
    /\ \A t \in Threads :
         (t \in ClientCallers /\ InPollingLoop(t))
         ~> (t \in ClientCallers /\ call[t].pc = "wfl_quit_interactive")

\* a poll raised, polling went on, and the deadline check after the timeout had
\* elapsed ended the loop without cookies
C27_Witness ==
    \E t \in ClientCallers :
        /\ call[t].op = "wait_for_login" /\ call[t].pc = "wfl_quit_interactive"
        /\ call[t].poll_failed
        /\ call[t].elapsed > call[t].timeout
        /\ call[t].timeout = MaxTimeout
        /\ ~call[t].captured_cookies.captured

----------------------------------------------------------------------------
(* Properties of the restore target *)

\* the URL has a scheme and a host
HasOrigin(u) == u.scheme # "" /\ u.netloc # ""

\* the origin the claim prefers: of start_url, else of the URL recorded before
\* the handoff, else the base URL the client was constructed with (or NoUrl)
PreferredOrigin(c) ==
    IF HasOrigin(c.start_url) THEN Url(c.start_url.scheme, c.start_url.netloc, "")
    ELSE IF HasOrigin(c.original_url)
    THEN Url(c.original_url.scheme, c.original_url.netloc, "")
    ELSE base_url

\* C28. Restore origin preference: when wait_for_login comes to the restore
\* with cookies captured, then, if a preferred origin exists, the step either
\* puts the headless session at it and goes on to the injection, or fails and
\* leaves the session as it was; if none exists the step makes no navigation and
\* goes on to the injection; and the injection that succeeds puts the sanitized
\* cookies in the session without moving it.
C28_RestoreOriginPreference ==
    [][\A t \in ClientCallers :
         LET c == call[t]
             d == call'[t]
         IN /\ (c.pc = "wfl_restore" /\ c.captured_cookies.jar # {} /\ d # c)
               => IF PreferredOrigin(c) = NoUrl
                  THEN d.pc = "wfl_inject" /\ page' = page
                  ELSE \/ d.pc = "wfl_inject" /\ page'.url = PreferredOrigin(c)
                       \/ d.pc = "done" /\ page' = page
            /\ (c.pc = "wfl_inject" /\ d # c /\ d.pc = "wfl_reload")
               => /\ page'.url = page.url
                  /\ page'.jar = {CleanCookie(k) : k \in c.captured_cookies.jar}]_vars

\* no origin was available (a relative start_url, a session at about:blank, no
\* base URL): the cookies are in the headless session, still at about:blank
C28_Witness ==
    \E t \in ClientCallers :
        /\ WaitForLoginEnded(t) /\ call[t].outcome = "returned"
        /\ call[t].start_url = Url("", "", "/login")
        /\ PreferredOrigin(call[t]) = NoUrl
        /\ page.up /\ page.headless /\ page.url = AboutBlank
        /\ page.jar # {}
        /\ page.jar = {CleanCookie(k) : k \in call[t].captured_cookies.jar}

----------------------------------------------------------------------------
(* Properties of close under contention *)

\* C33. Close is serialized with the store operations: the step of close that
\* closes the shared connection is taken only when no thread is inside the
\* locked section of get, set, clear_expired or clear_all.
C33_CloseSerialized ==
    [][(connOpen /\ ~connOpen') => lock = NoThread]_vars

----------------------------------------------------------------------------
(* Properties of the fetch a request builds *)

\* the method, URL and body request sends to the session for this call
WouldSend(c) ==
    <<Upper(c.method), c.url, FetchOptions(c.method, c.headers, c.data, c.json_data).body>>

\* C31. Cache hits match the request sent: when request returns a stored
\* record, the fetch whose result was stored under its key had the method, the
\* URL and the body this request would send.
C31_HitMatchesRequest ==
    [][\A t \in ClientCallers :
         LET c == call[t]
             d == call'[t]
         IN (c.op = "request" /\ c.pc = "req_cache" /\ d.pc = "done"
               /\ d.outcome = "returned")
            => \A p \in recorded :
                  p[1] = RequestKey(c.method, c.url, c.params, c.data, c.json_data)
                  => p[2] = WouldSend(c)]_vars

\* C32. The caller's headers are not modified: during and after a request the
\* mapping the caller passed has the keys and values it was passed with.
C32_HeadersUnchanged ==
    \A t \in ClientCallers :
        call[t].op = "request" => call[t].headers = call[t].headers_in

====
